---- MODULE Spec2Model ----
(***************************************************************************)
(* Model of redfin_scraper.py: RedfinScraper.scrape and its helpers.       *)
(*                                                                         *)
(* Texts are sequences of one-character strings, so that whitespace        *)
(* handling, prefix tests, keyword search and the engagement pattern are   *)
(* computed as the code computes them.  The middle dot of the engagement   *)
(* pattern is written "BULLET".  An Optional[...] value is None (the empty *)
(* sequence) or Some(v) (the one-element sequence holding v).              *)
(***************************************************************************)
EXTENDS Integers, Sequences, FiniteSets, TLC

VARIABLES
    pc,            \* position of the single thread of control in scrape
    limit,         \* argument of scrape
    site,          \* what the remote site can serve during this run
    browserOpen,   \* p.chromium.launch() done, browser.close() not yet
    contextOpen,   \* browser.new_context() done, context.close() not yet
    openPages,     \* pages opened and not yet closed (0: listing, i: i-th detail)
    dom,           \* card elements the listing page renders, in document order
    waitTimedOut,  \* wait_for_selector on the listing page timed out
    attempts,      \* local of _collect_home_cards
    reveals,       \* number of page.mouse.wheel calls of the collection
    pauses,        \* number of page.wait_for_timeout(1000) calls of the collection
    available,     \* local of _collect_home_cards
    index,         \* loop variable of the extraction loop
    cards,         \* local list of _collect_home_cards
    home_cards,    \* local of scrape
    results,       \* local of scrape
    idx,           \* number of the detail page being scraped
    d,             \* locals of _scrape_property_detail
    reads,         \* what the page answered to the calls of the latest step
    error,         \* the exception in flight or raised by scrape, or "none"
    returned       \* value returned by scrape, None until it returns

vars == <<pc, limit, site, browserOpen, contextOpen, openPages, dom,
          waitTimedOut, attempts, reveals, pauses, available, index, cards,
          home_cards, results, idx, d, reads, error, returned>>

None == <<>>
Some(v) == <<v>>

----------------------------------------------------------------------------
(* Characters and strings *)

WS == {" ", "\n", "\t"}
Digits == {"0", "1", "2", "3", "4", "5", "6", "7", "8", "9"}
UpperChars == <<"A","B","C","D","E","F","G","H","I","J","K","L","M",
                "N","O","P","Q","R","S","T","U","V","W","X","Y","Z">>
LowerChars == <<"a","b","c","d","e","f","g","h","i","j","k","l","m",
                "n","o","p","q","r","s","t","u","v","w","x","y","z">>
Letters == {UpperChars[i] : i \in 1..26} \cup {LowerChars[i] : i \in 1..26}

\* str.lower on one character
LowerChar(c) ==
    IF \E i \in 1..26 : UpperChars[i] = c
    THEN LowerChars[CHOOSE i \in 1..26 : UpperChars[i] = c]
    ELSE c

\* str.lower
Lower(s) == [i \in 1..Len(s) |-> LowerChar(s[i])]

\* first position >= i of s that holds no character of class C
RECURSIVE Run(_, _, _)
Run(s, i, C) == IF i <= Len(s) /\ s[i] \in C THEN Run(s, i + 1, C) ELSE i

\* first position >= i of s that holds a whitespace character
RECURSIVE SkipWord(_, _)
SkipWord(s, i) == IF i <= Len(s) /\ s[i] \notin WS THEN SkipWord(s, i + 1) ELSE i

\* last position <= i of s that holds a non-whitespace character, or 0
RECURSIVE LastWord(_, _)
LastWord(s, i) == IF i >= 1 /\ s[i] \in WS THEN LastWord(s, i - 1) ELSE i

\* str.strip()
Strip(s) == SubSeq(s, Run(s, 1, WS), LastWord(s, Len(s)))

\* str.split()
RECURSIVE SplitFrom(_, _)
SplitFrom(s, i) ==
    LET a == Run(s, i, WS) IN
    IF a > Len(s) THEN <<>>
    ELSE LET b == SkipWord(s, a) IN <<SubSeq(s, a, b - 1)>> \o SplitFrom(s, b)

Split(s) == SplitFrom(s, 1)

\* " ".join(words)
RECURSIVE Join(_)
Join(words) ==
    IF words = <<>> THEN <<>>
    ELSE IF Len(words) = 1 THEN words[1]
    ELSE words[1] \o <<" ">> \o Join(Tail(words))

\* str.splitlines()
RECURSIVE SplitLinesFrom(_, _)
SplitLinesFrom(s, i) ==
    IF i > Len(s) THEN <<>>
    ELSE LET e == Run(s, i, {c \in {s[j] : j \in i..Len(s)} : c # "\n"}) IN
         <<SubSeq(s, i, e - 1)>> \o SplitLinesFrom(s, e + 1)

SplitLines(s) == SplitLinesFrom(s, 1)

\* str.startswith
StartsWith(s, p) == Len(s) >= Len(p) /\ SubSeq(s, 1, Len(p)) = p

\* the `in` operator on strings
Contains(s, k) == \E i \in 0..(Len(s) - Len(k)) : SubSeq(s, i + 1, i + Len(k)) = k

\* _clean_card_stat
clean_card_stat(value) ==
    IF value = None \/ value = Some(<<>>) THEN value
    ELSE Some(Join(Split(value[1])))

----------------------------------------------------------------------------
(* Card elements of the listing page and the Card Field Extractor *)

\* RedfinScraper.base_url
base_url == <<"h","t","t","p","s",":","/","/","w","w","w",".","r","e","d","f","i","n",".","c","o","m">>

\* A card element: its title attribute, the inner text of its price, beds,
\* baths and sqft sub-elements (None: the sub-element is absent), its address
\* anchor (inner text and href attribute) and its photo image (src attribute).
CardA ==
    [title |-> None, price |-> None, beds |-> None, baths |-> None, sqft |-> None,
     anchor |-> Some([text |-> <<" ","1"," ","E","l","m","\n"," ","A","u","s","t","i","n"," ">>,
                      href |-> Some(<<"/","T","X","/","1">>)]),
     img |-> None]

CardB ==
    [title |-> Some(<<" ","N","i","c","e"," ","H","o","m","e"," ">>),
     price |-> Some(<<"$","9">>),
     beds |-> Some(<<"3"," ","b","e","d","s">>),
     baths |-> Some(<<"2","\t","b","a","t","h","s">>),
     sqft |-> Some(<<"1",",","0","0","0"," "," ","s","q"," ","f","t">>),
     anchor |-> Some([text |-> <<"2"," ","O","a","k">>,
                      href |-> Some(<<"h","t","t","p","s",":","/","/","w","w","w",".","r","e","d","f","i","n",".","c","o","m","/","T","X","/","2">>)]),
     img |-> Some([src |-> Some(<<"/","p","h","o","t","o","s","/","2",".","j","p","g">>)])]

CardC ==
    [title |-> None, price |-> Some(<<"$","9">>), beds |-> None, baths |-> None, sqft |-> None,
     anchor |-> Some([text |-> <<"3"," ","F","i","r">>, href |-> None]),
     img |-> Some([src |-> None])]

CardKinds == {CardA, CardB, CardC}

\* get_text: inner text of the first match of a sub-selector, stripped
get_text(inner) == IF inner = None THEN None ELSE Some(Strip(inner[1]))

\* get_text("a.bp-Homecard__Address")
anchor_text(card) ==
    get_text(IF card.anchor = None THEN None ELSE Some(card.anchor[1].text))

\* get_attr("a.bp-Homecard__Address", "href")
anchor_href(card) == IF card.anchor = None THEN None ELSE card.anchor[1].href

\* get_attr(".bp-Homecard__Photo img", "src")
img_src(card) == IF card.img = None THEN None ELSE card.img[1].src

\* the truth value Python gives an Optional[str]
Truthy(value) == value # None /\ value # Some(<<>>)

\* detail_path if detail_path.startswith("http") else f"{self.base_url}{detail_path}"
resolve_detail_url(detail_path) ==
    IF StartsWith(detail_path, <<"h","t","t","p">>) THEN detail_path
    ELSE base_url \o detail_path

\* title.strip() if title else address
card_title(title, address) == IF Truthy(title) THEN Some(Strip(title[1])) ELSE address

\* _parse_home_card: the HomeCard, or the RuntimeError of line 169
parse_home_card(card) ==
    LET price == get_text(card.price)
        beds == get_text(card.beds)
        baths == get_text(card.baths)
        sqft == get_text(card.sqft)
        address == anchor_text(card)
        title == card.title
        detail_path == anchor_href(card)
        image_url == img_src(card)
    IN  IF ~Truthy(detail_path)
        THEN [ok |-> FALSE, error |-> "MissingDetailLink"]
        ELSE [ok |-> TRUE,
              card |-> [title |-> card_title(title, address),
                        price |-> clean_card_stat(price),
                        beds |-> clean_card_stat(beds),
                        baths |-> clean_card_stat(baths),
                        sqft |-> clean_card_stat(sqft),
                        address |-> address,
                        detail_url |-> resolve_detail_url(detail_path[1]),
                        image_url |-> image_url]]

----------------------------------------------------------------------------
(* Bounds of the model *)

MaxLimit == 3
MaxCards == 3

Min(a, b) == IF a < b THEN a ELSE b

\* every card list the listing page may render
RECURSIVE DomsOfLen(_)
DomsOfLen(n) ==
    IF n = 0 THEN {<<>>}
    ELSE {Append(s, c) : s \in DomsOfLen(n - 1), c \in CardKinds}

Doms == UNION {DomsOfLen(n) : n \in 0..MaxCards}

----------------------------------------------------------------------------
(* The Listing Collector: _collect_home_cards *)

\* attempt bound of the reveal loop
MaxAttempts == 10

\* the loop condition with <= in place of <
LoopConditionInclusive(count, lim, att) == count <= lim /\ att < MaxAttempts

\* locator.count() < limit and attempts < 10
LoopCondition(count, lim, att) == count < lim /\ att < MaxAttempts

\* range(min(limit, available))
ExtractCount(lim, avail) == Min(lim, avail)

\* every index reads the first card
NthFirst(cardList, i) == cardList[1]

\* locator.nth(index)
Nth(cardList, i) == cardList[i + 1]

----------------------------------------------------------------------------
(* The Status Classifier: _extract_status_badge *)

\* preferred_keywords
preferred_keywords ==
    << <<"f","o","r"," ","s","a","l","e">>,
       <<"p","e","n","d","i","n","g">>,
       <<"s","o","l","d">>,
       <<"c","o","n","t","i","n","g","e","n","t">>,
       <<"a","c","t","i","v","e">>,
       <<"o","f","f"," ","m","a","r","k","e","t">>,
       <<"n","e","w"," ","l","i","s","t","i","n","g">> >>

\* any(keyword in lowered for keyword in preferred_keywords)
has_keyword(lowered) ==
    \E k \in 1..Len(preferred_keywords) : Contains(lowered, preferred_keywords[k])

\* longest candidate text the first tier accepts
MaxStatusLen == 80

\* [class*="status" i]
status_classed(el) == Contains(Lower(el.class), <<"s","t","a","t","u","s">>)

\* the script evaluated in the page: the trimmed, non-empty textContent of
\* every element whose class attribute contains "status"
status_script(elements) ==
    LET Classed(el) == status_classed(el)
        NonEmpty(t) == t # <<>>
        classed == SelectSeq(elements, Classed)
    IN  SelectSeq([i \in 1..Len(classed) |-> Strip(classed[i].text)], NonEmpty)

\* the candidate test without the length bound
candidate_accepted_any_length(cleaned) ==
    Truthy(cleaned) /\ has_keyword(Lower(cleaned[1]))

\* the test of one candidate of the first loop
candidate_accepted(cleaned) ==
    /\ Truthy(cleaned)
    /\ ~(Len(cleaned[1]) > MaxStatusLen)
    /\ has_keyword(Lower(cleaned[1]))

\* the first loop: the first accepted candidate, cleaned
RECURSIVE first_candidate(_)
first_candidate(candidates) ==
    IF candidates = <<>> THEN None
    ELSE LET cleaned == clean_card_stat(Some(Head(candidates))) IN
         IF candidate_accepted(cleaned) THEN cleaned
         ELSE first_candidate(Tail(candidates))

\* the test of one line of the second loop
line_accepted(cleaned) == Truthy(cleaned) /\ has_keyword(Lower(cleaned[1]))

\* the second loop: the first accepted line of the body text, cleaned
RECURSIVE first_line(_)
first_line(lines) ==
    IF lines = <<>> THEN None
    ELSE LET cleaned == clean_card_stat(Some(Head(lines))) IN
         IF line_accepted(cleaned) THEN cleaned
         ELSE first_line(Tail(lines))

----------------------------------------------------------------------------
(* The Engagement Stats Extractor: stats_pattern *)

NumChars == Digits \cup {","}
WordChars == Letters \cup Digits \cup {"_"}

\* X+ at position i: the position after the run, 0 when there is no match
Plus(s, i, C) == IF i >= 1 /\ Run(s, i, C) > i THEN Run(s, i, C) ELSE 0

\* one character of class C at position i
One(s, i, C) == IF i >= 1 /\ i <= Len(s) /\ s[i] \in C THEN i + 1 ELSE 0

\* a literal at position i, letters compared case-insensitively
Lit(s, i, word) ==
    IF i >= 1 /\ i + Len(word) - 1 <= Len(s)
              /\ Lower(SubSeq(s, i, i + Len(word) - 1)) = word
    THEN i + Len(word) ELSE 0

\* \s BULLET \s [0-9,]+ \s word : a record of the start of the number
\* and the position after the word
Counter(s, i, word) ==
    LET b1 == One(s, i, WS)
        b2 == One(s, b1, {"BULLET"})
        b3 == One(s, b2, WS)
        b4 == Plus(s, b3, NumChars)
        b5 == One(s, b4, WS)
    IN  [from |-> b3, to |-> Lit(s, b5, word)]

\* stats_pattern matched at position i; adjacent classes of the pattern are
\* disjoint, so every + takes the whole run
MatchAt(s, i) ==
    LET a1 == Plus(s, i, NumChars)
        a2 == Plus(s, a1, WS)
        a3 == Plus(s, a2, WordChars)
        a4 == Plus(s, a3, WS)
        a5 == Lit(s, a4, <<"o","n">>)
        a6 == Plus(s, a5, WS)
        a7 == Lit(s, a6, <<"r","e","d","f","i","n">>)
        v == Counter(s, a7, <<"v","i","e","w","s">>)
        f == Counter(s, v.to, <<"f","a","v","o","r","i","t","e","s">>)
    IN  IF f.to = 0 THEN None
        ELSE Some([on_redfin |-> SubSeq(s, i, a7 - 1),
                   views |-> SubSeq(s, v.from, v.to - 1),
                   favorites |-> SubSeq(s, f.from, f.to - 1)])

\* stats_pattern.search(body_text): the leftmost match
StatsSearch(s) ==
    LET starts == {i \in 1..Len(s) : s[i] \in NumChars /\ MatchAt(s, i) # None} IN
    IF starts = {} THEN None
    ELSE MatchAt(s, CHOOSE i \in starts : \A j \in starts : i <= j)

\* on_redfin, views, favorites as assigned after the search
EngagementFields(stats_match) ==
    IF stats_match # None
    THEN [on_redfin |-> clean_card_stat(Some(stats_match[1].on_redfin)),
          views |-> clean_card_stat(Some(stats_match[1].views)),
          favorites |-> clean_card_stat(Some(stats_match[1].favorites))]
    ELSE [on_redfin |-> None, views |-> None, favorites |-> None]

----------------------------------------------------------------------------
(* The Key-Details & Agent Extractor: the house-info fragment *)

\* Tag.get_text(strip=True) and Tag.get_text(" ", strip=True) of a node that
\* holds one text node
node_text(node) == Strip(node[1])

\* key_details[label_text] = value in an insertion-ordered dict
DictSet(dict, key, value) ==
    IF \E i \in 1..Len(dict) : dict[i][1] = key
    THEN [i \in 1..Len(dict) |-> IF dict[i][1] = key THEN <<key, value>> ELSE dict[i]]
    ELSE Append(dict, <<key, value>>)

\* the loop over house_info.select(".KeyDetailsTable .keyDetails-row")
RECURSIVE key_details_of(_, _)
key_details_of(rows, dict) ==
    IF rows = <<>> THEN dict
    ELSE LET row == Head(rows)
             rest == Tail(rows)
         IN  IF row.label # None /\ row.value # None
             THEN IF Lower(node_text(row.label)) = <<"o","n"," ","r","e","d","f","i","n">>
                  THEN key_details_of(rest, dict)
                  ELSE key_details_of(rest, DictSet(dict, node_text(row.label), node_text(row.value)))
             ELSE key_details_of(rest, dict)

\* agent_name, agent_broker, agent_profile_url
agent_of(agent_section) ==
    LET name_node == IF agent_section = None THEN None ELSE agent_section[1].name
        broker_node == IF agent_section = None THEN None ELSE agent_section[1].broker
        href == IF name_node = None THEN None ELSE name_node[1].href
    IN  [agent_name |-> IF name_node = None THEN None ELSE Some(Strip(name_node[1].text)),
         agent_profile_url |->
             IF Truthy(href) /\ ~StartsWith(href[1], <<"h","t","t","p">>)
             THEN Some(base_url \o href[1]) ELSE href,
         agent_broker |-> IF broker_node = None THEN None ELSE Some(node_text(broker_node))]

\* str.lstrip('#')
LStripHash(s) == SubSeq(s, Run(s, 1, {"#"}), Len(s))

\* f"{label}{self._clean_card_stat(node.get_text(strip=True))}"
Labelled(label, node) ==
    IF node = None THEN None
    ELSE Some(label \o clean_card_stat(Some(node_text(node)))[1])

\* f"MLS ID: {self._clean_card_stat(mls_node.get_text(strip=True).lstrip('#'))}"
LabelledMls(label, node) ==
    IF node = None THEN None
    ELSE Some(label \o clean_card_stat(Some(LStripHash(node_text(node))))[1])

\* listing_updated, redfin_checked, mls_source, mls_id
listing_info_of(listing_info) ==
    LET sub(name) == IF listing_info = None THEN None ELSE listing_info[1][name] IN
    [listing_updated |->
         Labelled(<<"L","i","s","t","i","n","g"," ","u","p","d","a","t","e","d",":"," ">>, sub("time")),
     redfin_checked |->
         Labelled(<<"R","e","d","f","i","n"," ","c","h","e","c","k","e","d",":"," ">>, sub("checked")),
     mls_source |->
         Labelled(<<"S","o","u","r","c","e",":"," ">>, sub("source")),
     mls_id |->
         LabelledMls(<<"M","L","S"," ","I","D",":"," ">>, sub("mls"))]

\* everything read from the parsed house-info fragment
house_info_fields(house_info) ==
    LET agent == agent_of(house_info.agent)
        listing == listing_info_of(house_info.listing)
    IN  [description |->
             IF house_info.description = None THEN None
             ELSE Some(node_text(house_info.description)),
         key_details |-> key_details_of(house_info.rows, <<>>),
         agent_name |-> agent.agent_name,
         agent_broker |-> agent.agent_broker,
         agent_profile_url |-> agent.agent_profile_url,
         listing_updated |-> listing.listing_updated,
         redfin_checked |-> listing.redfin_checked,
         mls_source |-> listing.mls_source,
         mls_id |-> listing.mls_id]

----------------------------------------------------------------------------
(* What a detail page can answer *)

\* a text of n characters that holds no whitespace and no keyword
Filler(n) == [i \in 1..n |-> "x"]

\* a text of n blanks
Blanks(n) == [i \in 1..n |-> " "]

ElPending == [class |-> <<"s","t","a","t","u","s","L","a","b","e","l">>,
              text |-> <<" ","P","e","n","d","i","n","g"," ">>]
ElTooLong == [class |-> <<"H","o","m","e","S","t","a","t","u","s">>,
              text |-> <<"s","o","l","d"," ">> \o Filler(MaxStatusLen - 4)]
ElLongest == [class |-> <<"S","T","A","T","U","S">>,
              text |-> <<"a","c","t","i","v","e"," ">> \o Filler(MaxStatusLen - 7)]
ElSpaced  == [class |-> <<"s","t","a","t","u","s">>,
              text |-> <<"S","o","l","d">> \o Blanks(MaxStatusLen) \o <<"n","o","w">>]
ElNoWord  == [class |-> <<"s","t","a","t","u","s">>,
              text |-> <<"V","e","r","i","f","i","e","d">>]
ElBlank   == [class |-> <<"s","t","a","t","u","s">>, text |-> <<" ">>]
ElOther   == [class |-> <<"p","r","i","c","e">>, text |-> <<"S","o","l","d">>]

BodyMatch == <<"H","o","m","e","\n"," ","P","e","n","d","i","n","g"," ","\n","1",",","2","3","4"," ","p","e","o","p","l","e"," ","o","n"," ","R","e","d","f","i","n"," ","BULLET"," ","5","6","7"," ","v","i","e","w","s"," ","BULLET"," ","8","9"," ","f","a","v","o","r","i","t","e","s","\n">>
BodyNoMatch == <<"L","o","a","d","i","n","g","\n","T","h","i","s"," ","h","o","m","e"," ","i","s"," "," ","O","f","f"," ","M","a","r","k","e","t","\n","1","2"," ","d","a","y","s"," ","o","n"," ","R","e","d","f","i","n","\n">>
BodyUpper == <<"L","i","s","t","i","n","g","\n","3"," "," ","D","A","Y","S","\t","O","N"," "," ","R","E","D","F","I","N"," ","BULLET"," ","1"," ","V","I","E","W","S"," ","BULLET"," ","2"," ","F","A","V","O","R","I","T","E","S">>
BodyNear == <<"7"," ","d","a","y","s"," ","o","n"," ","R","e","d","f","i","n"," "," ","BULLET"," ","1"," ","v","i","e","w","s"," ","BULLET"," ","2"," ","f","a","v","o","r","i","t","e","s">>
BodyPlain == <<"L","o","a","d","i","n","g">>

\* the six primary stats, None where the read fails
StatsAll ==
    [price |-> Some(<<"$","5","0","0",",","0","0","0">>),
     monthly |-> Some(<<"$","2",",","5","0","0"," ","/","m","o">>),
     beds |-> Some(<<"3","\n","b","e","d","s">>),
     baths |-> Some(<<"2"," ","b","a","t","h","s">>),
     sqft |-> Some(<<"1",",","5","0","0"," "," ","s","q"," ","f","t">>),
     address |-> Some(<<"1"," ","E","l","m"," ","S","t",",","\n","A","u","s","t","i","n">>)]
StatsNone ==
    [price |-> None, monthly |-> None, beds |-> None, baths |-> None,
     sqft |-> None, address |-> None]
StatsSome == [StatsNone EXCEPT !.beds = StatsAll.beds, !.address = Some(<<>>)]

\* house-info fragments
HouseFull ==
    [description |-> Some(<<" ","C","h","a","r","m","i","n","g"," "," ","h","o","m","e"," ">>),
     rows |-> << [label |-> Some(<<"Y","e","a","r"," ","B","u","i","l","t">>), value |-> Some(<<"1","9","9","9">>)],
                 [label |-> Some(<<"O","n"," ","R","e","d","f","i","n">>), value |-> Some(<<"1","2"," ","d","a","y","s">>)],
                 [label |-> Some(<<"L","o","t"," ","S","i","z","e">>), value |-> None],
                 [label |-> Some(<<"Y","e","a","r"," ","B","u","i","l","t">>), value |-> Some(<<"2","0","0","1">>)] >>,
     agent |-> Some([name |-> Some([text |-> <<" ","A","n","n"," ","L","e","e"," ">>,
                                    href |-> Some(<<"/","a","g","e","n","t","s","/","a","n","n">>)]),
                     broker |-> Some(<<"A","c","m","e"," ","R","e","a","l","t","y">>)]),
     listing |-> Some([time |-> Some(<<"J","a","n"," ","1">>),
                       checked |-> Some(<<"2"," ","m","i","n","u","t","e","s"," ","a","g","o">>),
                       source |-> Some(<<"A","C","T","R","I","S">>),
                       mls |-> Some(<<"#","M","L","S","1","2","3","4">>)])]
HouseEmpty ==
    [description |-> None, rows |-> <<>>, agent |-> None, listing |-> None]
HousePartial ==
    [description |-> None,
     rows |-> << [label |-> None, value |-> Some(<<"1","9","9","9">>)] >>,
     agent |-> Some([name |-> None, broker |-> Some(<<"A","c","m","e"," ","R","e","a","l","t","y">>)]),
     listing |-> Some([time |-> None, checked |-> None, source |-> None,
                       mls |-> Some(<<"#","M","L","S","1","2","3","4">>)])]

\* What the site serves: the answers of page.goto (None: no response, else
\* the HTTP status), of the candidate script and of page.inner_text("body")
\* (None: the call raises), of the six stat reads, and the house-info
\* container (None: the page has no such element).
DetailSite ==
    [responses |-> {None, Some(200), Some(302), Some(399), Some(400), Some(404), Some(500)},
     elements |-> {None, Some(<<>>), Some(<<ElOther, ElBlank, ElNoWord>>),
                   Some(<<ElNoWord, ElPending, ElLongest>>), Some(<<ElTooLong, ElLongest>>),
                   Some(<<ElTooLong, ElOther>>), Some(<<ElBlank, ElSpaced, ElPending>>)},
     bodies |-> {None, Some(<<>>), Some(BodyMatch), Some(BodyNoMatch), Some(BodyUpper),
                 Some(BodyNear), Some(BodyPlain)},
     stats |-> {StatsAll, StatsNone, StatsSome},
     houses |-> {None, Some(HouseFull), Some(HouseEmpty), Some(HousePartial)}]

\* The same for a whole run of scrape, where several detail pages are read.
ListingSite ==
    [responses |-> {None, Some(200), Some(399), Some(400)},
     elements |-> {Some(<<ElTooLong, ElPending>>)},
     bodies |-> {None, Some(BodyMatch)},
     stats |-> {StatsSome},
     houses |-> {None, Some(HousePartial)}]

----------------------------------------------------------------------------
(* State *)

\* the locals of _scrape_property_detail before its first statement
DetailLocals(url) ==
    [url |-> url, body_text |-> <<>>, status_badge |-> None,
     price |-> None, monthly |-> None, beds |-> None, baths |-> None,
     sqft |-> None, address |-> None,
     description |-> None, key_details |-> <<>>,
     agent_name |-> None, agent_broker |-> None, agent_profile_url |-> None,
     on_redfin |-> None, views |-> None, favorites |-> None,
     listing_updated |-> None, redfin_checked |-> None,
     mls_source |-> None, mls_id |-> None]

\* PropertyDetails(...)
PropertyDetails(loc) ==
    [f \in (DOMAIN loc) \ {"url", "body_text"} |-> loc[f]]

NoReads == [step |-> "none"]

\* a close that leaves the page open
ClosePageLeak(pages, id) == pages

\* page.close()
ClosePage(pages, id) == pages \ {id}

Init ==
    /\ pc = "launch"
    /\ limit \in 1..MaxLimit
    /\ site = ListingSite
    /\ browserOpen = FALSE
    /\ contextOpen = FALSE
    /\ openPages = {}
    /\ dom = <<>>
    /\ waitTimedOut = FALSE
    /\ attempts = 0
    /\ reveals = 0
    /\ pauses = 0
    /\ available = 0
    /\ index = 0
    /\ cards = <<>>
    /\ home_cards = <<>>
    /\ results = <<>>
    /\ idx = 0
    /\ d = DetailLocals(<<>>)
    /\ reads = NoReads
    /\ error = "none"
    /\ returned = None

collectVars == <<dom, waitTimedOut, attempts, reveals, pauses, available, index, cards>>
detailVars == <<d, reads>>
scrapeVars == <<limit, site, browserOpen, contextOpen, home_cards, results, idx, returned>>

----------------------------------------------------------------------------
(* scrape: browser and context *)

\* browser = p.chromium.launch(headless=True)
Launch ==
    /\ pc = "launch"
    /\ browserOpen' = TRUE
    /\ pc' = "create_context"
    /\ UNCHANGED <<limit, site, contextOpen, openPages, home_cards, results, idx,
                   returned, error, collectVars, detailVars>>

\* context = self._create_context(p, browser)
CreateContext ==
    /\ pc = "create_context"
    /\ contextOpen' = TRUE
    /\ pc' = "collect_open"
    /\ UNCHANGED <<limit, site, browserOpen, openPages, home_cards, results, idx,
                   returned, error, collectVars, detailVars>>

----------------------------------------------------------------------------
(* _collect_home_cards *)

\* page = context.new_page()
OpenListingPage ==
    /\ pc = "collect_open"
    /\ openPages' = openPages \cup {0}
    /\ pc' = "collect_goto"
    /\ UNCHANGED <<scrapeVars, error, collectVars, detailVars>>

\* page.goto(self.list_url, ...): returns, or raises (timeout, network error)
GotoListing ==
    /\ pc = "collect_goto"
    /\ \E loaded \in BOOLEAN :
         IF loaded
         THEN pc' = "collect_wait" /\ error' = error
         ELSE pc' = "collect_finally" /\ error' = "NavigationError"
    /\ UNCHANGED <<scrapeVars, openPages, collectVars, detailVars>>

\* page.wait_for_selector(card selector, timeout=15_000): the page renders
\* some list of cards meanwhile; the wait times out when there is none
WaitForCards ==
    /\ pc = "collect_wait"
    /\ \E rendered \in Doms :
         /\ dom' = rendered
         /\ waitTimedOut' = (rendered = <<>>)
    /\ attempts' = 0
    /\ pc' = "collect_loop"
    /\ UNCHANGED <<scrapeVars, openPages, error, reveals, pauses, available, index,
                   cards, detailVars>>

\* one iteration of the scroll loop: wheel, pause, attempts += 1; the page
\* renders any list of cards during the pause
Reveal ==
    /\ pc = "collect_loop"
    /\ LoopCondition(Len(dom), limit, attempts)
    /\ reveals' = reveals + 1
    /\ pauses' = pauses + 1
    /\ attempts' = attempts + 1
    /\ \E rendered \in Doms : dom' = rendered
    /\ UNCHANGED <<pc, scrapeVars, openPages, error, waitTimedOut, available, index,
                   cards, detailVars>>

\* the test on available with < 2 in place of == 0
NoCardsLoadedBelowTwo(avail) == avail < 2

\* if available == 0
NoCardsLoaded(avail) == avail = 0

\* the loop ends: available = locator.count(), and the RuntimeError of line 135
ReadAvailable ==
    /\ pc = "collect_loop"
    /\ ~LoopCondition(Len(dom), limit, attempts)
    /\ available' = Len(dom)
    /\ cards' = <<>>
    /\ index' = 0
    /\ IF NoCardsLoaded(Len(dom))
       THEN pc' = "collect_finally" /\ error' = "NoCardsFound"
       ELSE pc' = "collect_parse" /\ error' = error
    /\ UNCHANGED <<scrapeVars, openPages, dom, waitTimedOut, attempts, reveals,
                   pauses, detailVars>>

\* one iteration of the extraction loop
ParseCard ==
    /\ pc = "collect_parse"
    /\ index < ExtractCount(limit, available)
    /\ LET parsed == parse_home_card(Nth(dom, index)) IN
         IF parsed.ok
         THEN /\ cards' = Append(cards, parsed.card)
              /\ index' = index + 1
              /\ UNCHANGED <<pc, error>>
         ELSE /\ pc' = "collect_finally"
              /\ error' = parsed.error
              /\ UNCHANGED <<cards, index>>
    /\ UNCHANGED <<scrapeVars, openPages, dom, waitTimedOut, attempts, reveals,
                   pauses, available, detailVars>>

\* return cards, through the finally clause (the page and the locals of the
\* collection are gone); scrape starts its loop
ReturnCards ==
    /\ pc = "collect_parse"
    /\ ~(index < ExtractCount(limit, available))
    /\ openPages' = ClosePage(openPages, 0)
    /\ home_cards' = cards
    /\ results' = <<>>
    /\ idx' = 0
    /\ pc' = "scrape_loop"
    /\ dom' = <<>>
    /\ waitTimedOut' = FALSE
    /\ attempts' = 0
    /\ reveals' = 0
    /\ pauses' = 0
    /\ available' = 0
    /\ index' = 0
    /\ cards' = <<>>
    /\ UNCHANGED <<limit, site, browserOpen, contextOpen, returned, error, detailVars>>

\* the finally clause on an exception
CollectFinally ==
    /\ pc = "collect_finally"
    /\ openPages' = ClosePage(openPages, 0)
    /\ pc' = "scrape_finally"
    /\ UNCHANGED <<scrapeVars, error, collectVars, detailVars>>

----------------------------------------------------------------------------
(* scrape: the loop over the home cards *)

\* the next iteration of `for idx, card in enumerate(home_cards, start=1)`
ScrapeNext ==
    /\ pc = "scrape_loop"
    /\ idx < Len(home_cards)
    /\ idx' = idx + 1
    /\ d' = DetailLocals(home_cards[idx + 1].detail_url)
    /\ reads' = NoReads
    /\ pc' = "detail_open"
    /\ UNCHANGED <<limit, site, browserOpen, contextOpen, openPages, home_cards,
                   results, returned, error, collectVars>>

\* return results
ScrapeReturn ==
    /\ pc = "scrape_loop"
    /\ ~(idx < Len(home_cards))
    /\ pc' = "scrape_finally"
    /\ UNCHANGED <<scrapeVars, openPages, error, collectVars, detailVars>>

\* finally: context.close(); browser.close(); then the return or the exception
ScrapeFinally ==
    /\ pc = "scrape_finally"
    /\ contextOpen' = FALSE
    /\ browserOpen' = FALSE
    /\ IF error = "none"
       THEN pc' = "done" /\ returned' = Some(results)
       ELSE pc' = "failed" /\ returned' = returned
    /\ UNCHANGED <<limit, site, openPages, home_cards, results, idx, error,
                   collectVars, detailVars>>

----------------------------------------------------------------------------
(* _scrape_property_detail *)

detailFrame == <<scrapeVars, collectVars>>

\* page = context.new_page()
OpenDetailPage ==
    /\ pc = "detail_open"
    /\ openPages' = openPages \cup {idx}
    /\ pc' = "detail_goto"
    /\ UNCHANGED <<detailFrame, error, detailVars>>

\* the response test with > in place of >=
LoadFailedAbove(response) == response = None \/ response[1] > 400

\* not response or response.status >= 400
LoadFailed(response) == response = None \/ response[1] >= 400

\* response = page.goto(url, ...) and the RuntimeError of line 189
GotoDetail ==
    /\ pc = "detail_goto"
    /\ \E response \in site.responses :
         /\ reads' = [step |-> "goto", response |-> response]
         /\ IF LoadFailed(response)
            THEN pc' = "detail_finally" /\ error' = "DetailPageLoadFailed"
            ELSE pc' = "detail_wait_price" /\ error' = error
    /\ UNCHANGED <<detailFrame, openPages, d>>

\* page.wait_for_selector(price selector, timeout=15_000); a timeout is logged
WaitForPrice ==
    /\ pc = "detail_wait_price"
    /\ \E timed_out \in BOOLEAN : reads' = [step |-> "wait_price", timed_out |-> timed_out]
    /\ pc' = "detail_body"
    /\ UNCHANGED <<detailFrame, openPages, error, d>>

\* the text a read of the body yields: "" when page.inner_text raises
BodyOrEmpty(read) == IF read = None THEN <<>> ELSE read[1]

\* body_text = page.inner_text("body")
ReadBody ==
    /\ pc = "detail_body"
    /\ \E read \in site.bodies :
         /\ reads' = [step |-> "body", body |-> read]
         /\ d' = [d EXCEPT !.body_text = BodyOrEmpty(read)]
    /\ pc' = "detail_show_more"
    /\ UNCHANGED <<detailFrame, openPages, error>>

\* what the "Show more" block meets: no button, a disabled button, a button
\* it clicks, or an exception of count, is_enabled, click or the pause
ShowMoreOutcomes == {"absent", "disabled", "clicked", "raises"}

\* the "Show more" block; every exception is swallowed
ShowMore ==
    /\ pc = "detail_show_more"
    /\ \E outcome \in ShowMoreOutcomes : reads' = [step |-> "show_more", outcome |-> outcome]
    /\ pc' = "detail_status"
    /\ UNCHANGED <<detailFrame, openPages, error, d>>

\* candidates = page.evaluate(script), [] when it raises
CandidatesOrEmpty(read) == IF read = None THEN <<>> ELSE status_script(read[1])

\* status_badge = self._extract_status_badge(page): the body is read only
\* when no candidate is returned by the first loop
ExtractStatus ==
    /\ pc = "detail_status"
    /\ \E els \in site.elements :
         LET found == first_candidate(CandidatesOrEmpty(els)) IN
         IF found # None
         THEN /\ d' = [d EXCEPT !.status_badge = found]
              /\ reads' = [step |-> "status", elements |-> els, body |-> None]
         ELSE \E read \in site.bodies :
              /\ d' = [d EXCEPT !.status_badge = first_line(SplitLines(BodyOrEmpty(read)))]
              /\ reads' = [step |-> "status", elements |-> els, body |-> Some(read)]
    /\ pc' = "detail_stats"
    /\ UNCHANGED <<detailFrame, openPages, error>>

\* stat_text: None when the read raises, else the cleaned text
stat_text(read) == IF read = None THEN None ELSE clean_card_stat(read)

\* the six stat_text calls
ReadStats ==
    /\ pc = "detail_stats"
    /\ \E st \in site.stats :
         /\ reads' = [step |-> "stats", stats |-> st]
         /\ d' = [d EXCEPT !.price = stat_text(st.price),
                           !.monthly = stat_text(st.monthly),
                           !.beds = stat_text(st.beds),
                           !.baths = stat_text(st.baths),
                           !.sqft = stat_text(st.sqft),
                           !.address = stat_text(st.address)]
    /\ pc' = "detail_house"
    /\ UNCHANGED <<detailFrame, openPages, error>>

\* page.evaluate of querySelector(house-info).outerHTML, which raises when the
\* page has no such element, then the reads of the parsed fragment
ParseHouseInfo ==
    /\ pc = "detail_house"
    /\ \E house \in site.houses :
         /\ reads' = [step |-> "house", house |-> house]
         /\ IF house = None
            THEN /\ pc' = "detail_finally"
                 /\ error' = "EvaluateError"
                 /\ d' = d
            ELSE /\ pc' = "detail_engage"
                 /\ error' = error
                 /\ d' = [f \in DOMAIN d |->
                            IF f \in DOMAIN house_info_fields(house[1])
                            THEN house_info_fields(house[1])[f] ELSE d[f]]
    /\ UNCHANGED <<detailFrame, openPages>>

\* a retry whatever the first search found
RetryAlways(stats_match) == TRUE

\* if not stats_match
RetryNeeded(stats_match) == stats_match = None

\* d with on_redfin, views and favorites assigned from stats_match
WithEngagement(loc, stats_match) ==
    [loc EXCEPT !.on_redfin = EngagementFields(stats_match).on_redfin,
                !.views = EngagementFields(stats_match).views,
                !.favorites = EngagementFields(stats_match).favorites]

\* stats_match = stats_pattern.search(body_text), and the assignment of the
\* three fields when no retry follows
EngageFirst ==
    /\ pc = "detail_engage"
    /\ LET stats_match == StatsSearch(d.body_text) IN
         /\ reads' = [step |-> "engage", texts |-> <<d.body_text>>,
                      matched |-> stats_match # None, pauses |-> 0, rereads |-> 0]
         /\ IF RetryNeeded(stats_match)
            THEN pc' = "detail_retry" /\ d' = d
            ELSE pc' = "detail_return" /\ d' = WithEngagement(d, stats_match)
    /\ UNCHANGED <<detailFrame, openPages, error>>

\* the retry: the pause, the second read of the body and the second search,
\* any exception swallowed; then the assignment of the three fields
EngageRetry ==
    /\ pc = "detail_retry"
    /\ \/ \* page.wait_for_timeout(800) raises
          /\ reads' = [reads EXCEPT !.pauses = @ + 1]
          /\ d' = WithEngagement(d, StatsSearch(reads.texts[1]))
       \/ \E read \in site.bodies :
            IF read = None
            THEN \* page.inner_text("body") raises
                 /\ reads' = [reads EXCEPT !.pauses = @ + 1, !.rereads = @ + 1]
                 /\ d' = WithEngagement(d, StatsSearch(reads.texts[1]))
            ELSE /\ reads' = [reads EXCEPT !.pauses = @ + 1, !.rereads = @ + 1,
                                           !.texts = Append(@, read[1])]
                 /\ d' = WithEngagement([d EXCEPT !.body_text = read[1]],
                                        StatsSearch(read[1]))
    /\ pc' = "detail_return"
    /\ UNCHANGED <<detailFrame, openPages, error>>

\* return PropertyDetails(...), through the finally clause, and
\* results.append({"card": ..., "detail": ...}) in scrape
ReturnDetail ==
    /\ pc = "detail_return"
    /\ openPages' = ClosePage(openPages, idx)
    /\ results' = Append(results, [card |-> home_cards[idx], detail |-> PropertyDetails(d)])
    /\ d' = DetailLocals(<<>>)
    /\ pc' = "scrape_loop"
    /\ UNCHANGED <<limit, site, browserOpen, contextOpen, home_cards, idx, returned,
                   error, collectVars, reads>>

\* the finally clause on an exception
DetailFinally ==
    /\ pc = "detail_finally"
    /\ openPages' = ClosePage(openPages, idx)
    /\ pc' = "scrape_finally"
    /\ UNCHANGED <<detailFrame, error, detailVars>>

----------------------------------------------------------------------------
(* Specifications *)

DetailNext ==
    \/ OpenDetailPage
    \/ GotoDetail
    \/ WaitForPrice
    \/ ReadBody
    \/ ShowMore
    \/ ExtractStatus
    \/ ReadStats
    \/ ParseHouseInfo
    \/ EngageFirst
    \/ EngageRetry
    \/ ReturnDetail
    \/ DetailFinally

Next ==
    \/ Launch
    \/ CreateContext
    \/ OpenListingPage
    \/ GotoListing
    \/ WaitForCards
    \/ Reveal
    \/ ReadAvailable
    \/ ParseCard
    \/ ReturnCards
    \/ CollectFinally
    \/ ScrapeNext
    \/ ScrapeReturn
    \/ ScrapeFinally
    \/ DetailNext

\* a run of scrape
Spec == Init /\ [][Next]_vars

\* the same run; the thread of control does not stop inside the scroll loop
\* nor inside a finally clause
FairSpec ==
    Spec /\ WF_vars(Reveal \/ ReadAvailable \/ CollectFinally \/ DetailFinally
                            \/ ScrapeFinally)

\* one call of _scrape_property_detail, on the first card of a collection of
\* one card, against a site that serves every kind of detail page
InitDetail ==
    /\ pc = "detail_open"
    /\ limit = 1
    /\ site = DetailSite
    /\ browserOpen = TRUE
    /\ contextOpen = TRUE
    /\ openPages = {}
    /\ dom = <<>>
    /\ waitTimedOut = FALSE
    /\ attempts = 0
    /\ reveals = 0
    /\ pauses = 0
    /\ available = 0
    /\ index = 0
    /\ cards = <<>>
    /\ home_cards \in {<<parse_home_card(card).card>> : card \in {CardA, CardB}}
    /\ results = <<>>
    /\ idx = 1
    /\ d = DetailLocals(home_cards[1].detail_url)
    /\ reads = NoReads
    /\ error = "none"
    /\ returned = None

SpecDetail == InitDetail /\ [][DetailNext]_vars

----------------------------------------------------------------------------
(* Properties *)

\* the Text Normalizer: every whitespace run becomes one space, ends trimmed
Normalized(text) == Join(Split(text))

\* the least element of a non-empty set of numbers
Least(S) == CHOOSE i \in S : \A j \in S : i <= j

\* C1: in the Listing Collector a reveal is triggered only when the rendered
\* card count is below limit, every reveal comes with exactly one pause, at
\* most 10 reveals happen per collection, the loop is left as soon as the
\* count has reached limit (so a surface that renders limit cards at once
\* sees no reveal), and the loop always terminates.
C1_RevealLoop ==
    /\ [][reveals' > reveals =>
            /\ pc = "collect_loop"
            /\ Len(dom) < limit
            /\ reveals' = reveals + 1
            /\ pauses' = pauses + 1]_vars
    /\ [][(pc = "collect_loop" /\ Len(dom) >= limit) =>
            (pc' # "collect_loop" /\ reveals' = reveals)]_vars
    /\ [](reveals <= 10 /\ pauses = reveals)
    /\ [](pc = "collect_parse" /\ reveals = 0 => ~waitTimedOut)
    /\ ((pc = "collect_loop") ~> (pc # "collect_loop"))

\* C1 witness: reveals happened and the loop stopped early with enough cards
C1_Witness ==
    /\ pc = "collect_parse"
    /\ reveals >= 2
    /\ reveals < MaxAttempts
    /\ available >= limit

\* C2: a successful collection returns exactly min(limit, available) records,
\* the i-th one extracted from the i-th card in document order.
C2_FirstCardsInOrder ==
    [][(pc = "collect_parse" /\ pc' = "scrape_loop") =>
        /\ Len(home_cards') = Min(limit, available)
        /\ \A i \in 1..Len(home_cards') :
             home_cards'[i] = parse_home_card(dom[i]).card]_vars

\* C2 witness: more cards rendered than asked for, two different cards taken
C2_Witness ==
    /\ pc = "collect_parse"
    /\ limit = 2
    /\ available = 3
    /\ index = 2
    /\ cards[1] # cards[2]

\* C3: the collector raises NoCardsFound exactly when the count read after
\* the reveal loop is zero; a timeout of the initial wait is not fatal: the
\* loop still runs (NoCardsFound comes only after the whole reveal budget),
\* and when cards appear during the loop no NoCardsFound is raised.
C3_NoCardsFound ==
    /\ [][(pc = "collect_loop" /\ pc' # "collect_loop") =>
            /\ available' = Len(dom)
            /\ (error' = "NoCardsFound") <=> (Len(dom) = 0)
            /\ (pc' = "collect_parse") <=> (Len(dom) > 0)]_vars
    /\ [][pc = "collect_wait" => (pc' = "collect_loop" /\ error' = "none")]_vars
    /\ [](error = "NoCardsFound" => (available = 0 /\ reveals = 10))
    /\ []((waitTimedOut /\ pc = "collect_parse") => (reveals >= 1 /\ available > 0))

\* C3 witness: the initial wait timed out, cards appeared during the loop
C3_Witness ==
    /\ waitTimedOut
    /\ pc = "collect_parse"
    /\ available > 0
    /\ error = "none"

\* C4: at most one page is open at any time, a page is open only inside the
\* operation that opened it (whatever way that operation is left), and the
\* context and the browser are closed when scrape has exited.
C4_PagesReleased ==
    /\ Cardinality(openPages) <= 1
    /\ (openPages # {} => (contextOpen /\ browserOpen))
    /\ (pc \in {"scrape_loop", "detail_open", "scrape_finally", "done", "failed"}
          => openPages = {})
    /\ (0 \in openPages => pc \in {"collect_goto", "collect_wait", "collect_loop",
                                   "collect_parse", "collect_finally"})
    /\ (pc \in {"done", "failed"} => (~contextOpen /\ ~browserOpen))

\* C4 witness: the extraction of the second detail page raised and scrape
\* has exited
C4_Witness ==
    /\ pc = "failed"
    /\ error = "EvaluateError"
    /\ idx = 2

\* the fatal error kinds
FatalKinds == {"NoCardsFound", "MissingDetailLink", "DetailPageLoadFailed"}

\* the card has a detail link
HasDetailLink(card) ==
    /\ card.anchor # None
    /\ card.anchor[1].href # None
    /\ card.anchor[1].href # Some(<<>>)

\* the navigation yields no response or a response that is not 2xx/3xx
BadResponse(response) == response = None \/ response[1] \notin 200..399

\* C5: fatal errors are all-or-nothing: a selected card without a detail
\* link, an empty listing or a failed detail navigation raises its error;
\* from then on the error stays, no page is opened, no result is added,
\* nothing is returned, and scrape ends failed with that error.
C5_FatalAllOrNothing ==
    /\ []((reads.step = "goto" /\ BadResponse(reads.response))
            => error = "DetailPageLoadFailed")
    /\ [][(pc = "collect_parse" /\ pc' = "scrape_loop") =>
            \A i \in 1..Min(limit, available) : HasDetailLink(dom[i])]_vars
    /\ [][(pc = "collect_parse" /\ index < Min(limit, available)
             /\ ~HasDetailLink(dom[index + 1])) => error' = "MissingDetailLink"]_vars
    /\ [](error \in FatalKinds =>
            /\ returned = None
            /\ pc \in {"collect_finally", "detail_finally", "scrape_finally", "failed"})
    /\ [][(error \in FatalKinds) =>
            (error' = error /\ (openPages' \subseteq openPages) /\ results' = results)]_vars
    /\ [](pc = "done" => (error = "none" /\ returned = Some(results)))
    /\ \A kind \in FatalKinds : (error = kind) ~> (pc = "failed" /\ error = kind)

\* C5 witness: a detail navigation failed after a pair had been built, and
\* scrape has ended without returning it
C5_Witness ==
    /\ pc = "failed"
    /\ error = "DetailPageLoadFailed"
    /\ Len(results) >= 1
    /\ returned = None

\* C6: once the navigation to a detail page has succeeded, the extraction
\* of that page is never aborted: the only exception that leaves
\* _scrape_property_detail is the failed navigation.
C6_DetailAlwaysReturns ==
    pc = "detail_finally" => error = "DetailPageLoadFailed"

\* the three engagement fields of a record are all present
AllPresent(rec) == rec.on_redfin # None /\ rec.views # None /\ rec.favorites # None

\* the three engagement fields of a record are all absent
AllAbsent(rec) == rec.on_redfin = None /\ rec.views = None /\ rec.favorites = None

\* the engagement pattern matches one of the texts searched
SomeTextMatches(texts) == \E i \in 1..Len(texts) : StatsSearch(texts[i]) # None

\* C7: the pattern is applied to the body text first; the pause and the
\* second read happen only after a failed first search and at most once; in
\* the record returned the three fields are all present when one of the
\* texts searched matched and all absent otherwise.
C7_EngagementAllOrNone ==
    reads.step = "engage" =>
        /\ Len(reads.texts) <= 2
        /\ reads.pauses <= 1
        /\ reads.rereads <= reads.pauses
        /\ Len(reads.texts) = 2 => reads.rereads = 1
        /\ reads.matched = (StatsSearch(reads.texts[1]) # None)
        /\ reads.matched => (reads.pauses = 0 /\ Len(reads.texts) = 1)
        /\ (pc = "detail_retry") => (~reads.matched /\ reads.pauses = 0)
        /\ (pc = "detail_return" /\ ~reads.matched) => reads.pauses = 1
        /\ (pc = "detail_return") =>
              IF SomeTextMatches(reads.texts) THEN AllPresent(d) ELSE AllAbsent(d)
        /\ (pc = "scrape_loop") =>
              IF SomeTextMatches(reads.texts)
              THEN AllPresent(results[Len(results)].detail)
              ELSE AllAbsent(results[Len(results)].detail)

\* C7 witness: the first search failed, the text read again matched, and
\* the record returned holds the three fields
C7_Witness ==
    /\ pc = "scrape_loop"
    /\ reads.step = "engage"
    /\ Len(reads.texts) = 2
    /\ StatsSearch(reads.texts[1]) = None
    /\ StatsSearch(reads.texts[2]) # None
    /\ AllPresent(results[Len(results)].detail)

\* an absolute URL
IsAbsoluteUrl(url) ==
    \/ StartsWith(url, <<"h","t","t","p",":","/","/">>)
    \/ StartsWith(url, <<"h","t","t","p","s",":","/","/">>)

\* C8: in every card record detail_url is an absolute URL and image_url,
\* when present, is an absolute URL.
C8_AbsoluteUrls ==
    \A i \in 1..Len(cards) :
        /\ IsAbsoluteUrl(cards[i].detail_url)
        /\ cards[i].image_url # None => IsAbsoluteUrl(cards[i].image_url[1])

\* the Text Normalizer applied to an optional raw text
NormalizedOpt(raw) == IF raw = None THEN None ELSE Some(Normalized(raw[1]))

\* C9: every text field of a card record is the Text Normalizer applied to
\* the raw text read from the card (absent when the sub-element is absent),
\* and the title is the address field when the card has no title attribute.
C9_CardTextsNormalized ==
    \A i \in 1..Len(cards) :
        LET card == dom[i]
            rec == cards[i]
            rawAddress == IF card.anchor = None THEN None ELSE Some(card.anchor[1].text)
        IN  /\ rec.price = NormalizedOpt(card.price)
            /\ rec.beds = NormalizedOpt(card.beds)
            /\ rec.baths = NormalizedOpt(card.baths)
            /\ rec.sqft = NormalizedOpt(card.sqft)
            /\ rec.address = NormalizedOpt(rawAddress)
            /\ rec.title = (IF card.title = None THEN rec.address
                            ELSE NormalizedOpt(card.title))

\* a status-classed element the first tier accepts
Qualifies(el) ==
    /\ status_classed(el)
    /\ Len(Normalized(el.text)) <= 80
    /\ has_keyword(Lower(Normalized(el.text)))

\* C10: the status is the normalized text of the first status-classed
\* element that qualifies, and then the body text is not read; without such
\* an element it is the first normalized line of the body text that holds a
\* keyword, absent when there is none; a failed read of the candidates or of
\* the body counts as an empty one and nothing is raised.
C10_StatusRankedFallback ==
    reads.step = "status" =>
        LET els == IF reads.elements = None THEN <<>> ELSE reads.elements[1]
            hits == {i \in 1..Len(els) : Qualifies(els[i])}
            body == IF reads.body = None \/ reads.body[1] = None
                    THEN <<>> ELSE reads.body[1][1]
            lines == SplitLines(body)
            lineHits == {j \in 1..Len(lines) : has_keyword(Lower(Normalized(lines[j])))}
        IN  /\ error = "none"
            /\ pc = "detail_stats"
            /\ IF hits # {}
               THEN /\ d.status_badge = Some(Normalized(els[Least(hits)].text))
                    /\ reads.body = None
               ELSE /\ reads.body # None
                    /\ IF lineHits # {}
                       THEN d.status_badge = Some(Normalized(lines[Least(lineHits)]))
                       ELSE d.status_badge = None

\* C10 witness: a candidate longer than 80 characters was passed over and a
\* later candidate of exactly 80 characters was returned
C10_Witness ==
    /\ reads.step = "status"
    /\ reads.elements = Some(<<ElTooLong, ElLongest>>)
    /\ d.status_badge = Some(ElLongest.text)
    /\ Len(d.status_badge[1]) = MaxStatusLen

====
